---- MODULE Spec2Model ----
(***************************************************************************)
(* Model of the Sentry module for Nuxt: option resolution (setup and the   *)
(* client/server option resolvers) and the lifecycle hooks (build:before,  *)
(* webpack:config, server init, shutdown).                                 *)
(*                                                                         *)
(* JavaScript values are tagged records [t, v]:                            *)
(*   undef, bool, str, num, arr (v a sequence), obj (v a function from     *)
(*   key strings to values), inst (an instance of an integration class).   *)
(* Numbers are sample rates in tenths (10 is 1.0).                         *)
(***************************************************************************)
EXTENDS Integers, Sequences, FiniteSets, TLC

VARIABLES
    env,            \* process.env
    nuxt,           \* the host's options: dev, _build, sentry (top level options), publicRuntimeConfig
    moduleOptions,  \* the options given to the module inline
    phase,          \* "new" before setup has run, "setup" after
    options,        \* the ResolvedModuleConfiguration that setup builds
    hooks,          \* names of the host hooks setup has subscribed to
    logs,           \* what the logger received, in order
    plugins,        \* addPlugin calls, in order
    templates,      \* addTemplate calls, in order
    buildDone,      \* build:before has run
    cliCalls,       \* invocations of cli.releases.proposeVersion()
    processSentry,  \* process.sentry is set
    sentryConfig,   \* the configuration last passed to Sentry.init (undefined before)
    activations,    \* Sentry.init calls since the last shutdown (or process start)
    closes,         \* process.sentry.close() calls
    hookCalls,      \* server init / generate:done hook invocations so far
    lastCall,       \* the last init / shutdown call: what it found and what it did
    webpack         \* the webpack:config hook: its inputs, its argument before and after, its outcome

vars == <<env, nuxt, moduleOptions, phase, options, hooks, logs, plugins, templates,
          buildDone, cliCalls, processSentry, sentryConfig, activations, closes,
          hookCalls, lastCall, webpack>>

----------------------------------------------------------------------------
(* JavaScript values *)

U == [t |-> "undef", v |-> FALSE]
B(b) == [t |-> "bool", v |-> b]
S(s) == [t |-> "str", v |-> s]
N(n) == [t |-> "num", v |-> n]
A(seq) == [t |-> "arr", v |-> seq]
O(f) == [t |-> "obj", v |-> f]
Inst(name, arg) == [t |-> "inst", v |-> [name |-> name, arg |-> arg]]

EmptyFn == [k \in {} |-> U]
EmptyObj == O(EmptyFn)

Truthy(x) ==
    CASE x.t = "undef" -> FALSE
      [] x.t = "bool" -> x.v
      [] x.t = "str" -> x.v # ""
      [] x.t = "num" -> x.v # 0
      [] OTHER -> TRUE

IsArray(x) == x.t = "arr"
IsObj(x) == x.t = "obj"

Has(o, k) == o.t = "obj" /\ k \in DOMAIN o.v
Get(o, k) == IF Has(o, k) THEN o.v[k] ELSE U
Keys(o) == IF o.t = "obj" THEN DOMAIN o.v ELSE {}
Put(o, k, x) == O([j \in DOMAIN o.v \cup {k} |-> IF j = k THEN x ELSE o.v[j]])
Del(o, k) == O([j \in DOMAIN o.v \ {k} |-> o.v[j]])

Max(a, b) == IF a >= b THEN a ELSE b

----------------------------------------------------------------------------
(* lodash.mergewith *)

\* Array.prototype.concat: an array argument is spread, any other value is appended.
Concat(arr, x) == A(IF IsArray(x) THEN arr.v \o x.v ELSE Append(arr.v, x))

mergeWithCustomizerNever(objValue, srcValue) == U

\* The customizer of the module file: concatenate when the destination is an array.
\* It returns undefined otherwise (the default merge then applies).
mergeWithCustomizer(objValue, srcValue) ==
    IF IsArray(objValue) THEN Concat(objValue, srcValue) ELSE U

NoCustomizer(objValue, srcValue) == U

Customize(c, objValue, srcValue) ==
    IF c THEN mergeWithCustomizer(objValue, srcValue) ELSE NoCustomizer(objValue, srcValue)

RECURSIVE baseMerge(_, _, _)
RECURSIVE SeqMerge(_, _, _, _)

\* The value stored at a key whose source value is srcValue (baseMergeDeep for
\* arrays and plain objects, plain assignment for the rest; a source value of
\* undefined never overwrites).
MergeValue(objValue, srcValue, c) ==
    LET custom == Customize(c, objValue, srcValue) IN
    IF custom.t # "undef" THEN custom
    ELSE IF IsArray(srcValue)
         THEN baseMerge(IF IsArray(objValue) THEN objValue ELSE A(<<>>), srcValue, c)
    ELSE IF IsObj(srcValue)
         THEN baseMerge(IF IsObj(objValue) THEN objValue ELSE EmptyObj, srcValue, c)
    ELSE IF srcValue.t = "undef" THEN objValue
    ELSE srcValue

\* Index-wise merge of the first n entries of two sequences (lodash walks the
\* source array's indices like an object's keys).
SeqMerge(objSeq, srcSeq, n, c) ==
    IF n = 0 THEN <<>>
    ELSE Append(SeqMerge(objSeq, srcSeq, n - 1, c),
                IF n > Len(srcSeq) THEN objSeq[n]
                ELSE MergeValue(IF n <= Len(objSeq) THEN objSeq[n] ELSE U, srcSeq[n], c))

\* baseMerge(object, source): a source that is no object or array has no keys.
baseMerge(object, source, c) ==
    IF IsObj(source) /\ IsObj(object)
    THEN O([k \in DOMAIN object.v \cup DOMAIN source.v |->
              IF k \in DOMAIN source.v
              THEN MergeValue(Get(object, k), source.v[k], c)
              ELSE object.v[k]])
    ELSE IF IsArray(source) /\ IsArray(object)
    THEN A(SeqMerge(object.v, source.v, Max(Len(object.v), Len(source.v)), c))
    ELSE object

\* merge(object, ...sources) without a customizer, and with the module's customizer.
merge2(object, s1) == baseMerge(object, s1, FALSE)
merge3(object, s1, s2) == baseMerge(baseMerge(object, s1, FALSE), s2, FALSE)
mergeWith2(object, s1) == baseMerge(object, s1, TRUE)
mergeWith4(object, s1, s2, s3) ==
    baseMerge(baseMerge(baseMerge(object, s1, TRUE), s2, TRUE), s3, TRUE)

----------------------------------------------------------------------------
(* core/utils *)

boolToText(value) == IF value THEN "enabled" ELSE "disabled"

\* String.prototype.toLowerCase on a sequence of characters.
LowerChar(ch) ==
    CASE ch = "F" -> "f" [] ch = "A" -> "a" [] ch = "L" -> "l"
      [] ch = "S" -> "s" [] ch = "E" -> "e" [] ch = "T" -> "t"
      [] ch = "R" -> "r" [] ch = "U" -> "u" [] ch = "Y" -> "y"
      [] OTHER -> ch
RECURSIVE toLowerCase(_)
toLowerCase(s) ==
    IF s = <<>> THEN <<>> ELSE <<LowerChar(Head(s))>> \o toLowerCase(Tail(s))

\* An environment variable is [set, val]: val is its characters when set.
Unset == [set |-> FALSE, val |-> <<>>]
EnvStr(chars) == [set |-> TRUE, val |-> chars]

envToBool(e) ==
    /\ e.set
    /\ e.val # <<>>
    /\ toLowerCase(e.val) # <<"f", "a", "l", "s", "e">>
    /\ e.val # <<"0">>

canInitialize(opts) == Truthy(Get(opts, "initialize")) /\ Truthy(Get(opts, "dsn"))
clientSentryEnabled(opts) ==
    ~Truthy(Get(opts, "disabled")) /\ ~Truthy(Get(opts, "disableClientSide"))
serverSentryEnabled(opts) ==
    ~Truthy(Get(opts, "disabled")) /\ ~Truthy(Get(opts, "disableServerSide"))

----------------------------------------------------------------------------
(* setup: the resolved configuration *)

EnvVar(e, name) == e[name]

\* process.env.NAME || '' for a variable whose value is kept as one string.
EnvOr(e, name, dflt) == IF e[name].set /\ e[name].val # "" THEN e[name].val ELSE dflt

defaults(e, dev) ==
    O([ lazy |-> B(FALSE),
        dsn |-> S(EnvOr(e, "SENTRY_DSN", "")),
        disabled |-> B(envToBool(EnvVar(e, "SENTRY_DISABLED")) \/ FALSE),
        initialize |-> B(envToBool(EnvVar(e, "SENTRY_INITIALIZE")) \/ TRUE),
        runtimeConfigKey |-> S("sentry"),
        disableClientSide |-> B(envToBool(EnvVar(e, "SENTRY_DISABLE_CLIENT_SIDE")) \/ FALSE),
        disableServerSide |-> B(envToBool(EnvVar(e, "SENTRY_DISABLE_SERVER_SIDE")) \/ FALSE),
        publishRelease |-> B(envToBool(EnvVar(e, "SENTRY_PUBLISH_RELEASE")) \/ FALSE),
        disableServerRelease |-> B(envToBool(EnvVar(e, "SENTRY_DISABLE_SERVER_RELEASE")) \/ FALSE),
        disableClientRelease |-> B(envToBool(EnvVar(e, "SENTRY_DISABLE_CLIENT_RELEASE")) \/ FALSE),
        logMockCalls |-> B(TRUE),
        sourceMapStyle |-> S("source-map"),
        tracing |-> B(FALSE),
        clientIntegrations |->
            O([ Dedupe |-> EmptyObj,
                ExtraErrorData |-> EmptyObj,
                ReportingObserver |-> EmptyObj,
                RewriteFrames |-> EmptyObj,
                Vue |-> O([attachProps |-> B(TRUE), logErrors |-> B(dev)]) ]),
        serverIntegrations |->
            O([ Dedupe |-> EmptyObj,
                ExtraErrorData |-> EmptyObj,
                RewriteFrames |-> EmptyObj,
                Transaction |-> EmptyObj ]),
        config |-> O([environment |-> S(IF dev THEN "development" ELSE "production")]),
        serverConfig |-> EmptyObj,
        clientConfig |-> EmptyObj,
        requestHandlerConfig |-> EmptyObj ])

defaultsPublishRelease ==
    O([ include |-> A(<<>>),
        ignore |-> A(<<S("node_modules"), S(".nuxt/dist/client/img")>>),
        configFile |-> S(".sentryclirc") ])

\* this.options.sentry || {}
topLevelOptions(nx) == IF Truthy(nx.sentry) THEN nx.sentry ELSE EmptyObj

\* merge({}, defaults, topLevelOptions, moduleOptions, mergeWithCustomizer)
mergedOptions(e, nx, mo) ==
    mergeWith4(EmptyObj, defaults(e, nx.dev), topLevelOptions(nx), mo)

\* merge(defaultsPublishRelease, options.publishRelease, mergeWithCustomizer)
mergedPublishRelease(publishRelease) == mergeWith2(defaultsPublishRelease, publishRelease)

setupOptions(e, nx, mo) ==
    LET opts == mergedOptions(e, nx, mo) IN
    IF Truthy(Get(opts, "publishRelease"))
    THEN Put(opts, "publishRelease", mergedPublishRelease(Get(opts, "publishRelease")))
    ELSE opts

initHook(nx) == IF nx.build THEN "build:compile" ELSE "ready"

ServerHooks == {"render:setupMiddleware", "render:errorMiddleware", "generate:routeFailed"}

setupHooks(opts, nx) ==
    (IF serverSentryEnabled(opts) THEN ServerHooks ELSE {})
    \cup {"build:before"}
    \cup (IF serverSentryEnabled(opts) THEN {initHook(nx), "generate:done"} ELSE {})
    \cup (IF Truthy(Get(opts, "publishRelease")) /\ ~Truthy(Get(opts, "disabled")) /\ ~nx.dev
          THEN {"webpack:config"} ELSE {})

Log(level, msg, arg) == [level |-> level, msg |-> msg, arg |-> arg]

setupStatus(opts) ==
    IF canInitialize(opts) /\ (clientSentryEnabled(opts) \/ serverSentryEnabled(opts))
    THEN Log("success", "Sentry reporting is enabled",
             A(<<S(boolToText(clientSentryEnabled(opts))), S(boolToText(serverSentryEnabled(opts)))>>))
    ELSE Log("info", "Sentry reporting is disabled",
             S(IF Truthy(Get(opts, "disabled")) THEN "\"disabled\" option has been set"
               ELSE IF ~Truthy(Get(opts, "dsn")) THEN "no DSN has been provided"
               ELSE IF ~Truthy(Get(opts, "initialize")) THEN "\"initialize\" option has been set to false"
               ELSE "both client and server side clients are disabled"))

----------------------------------------------------------------------------
(* core/options: the release, lazy, tracing, client and server resolvers *)

PLUGGABLE_INTEGRATIONS ==
    <<"CaptureConsole", "Debug", "Dedupe", "ExtraErrorData", "ReportingObserver",
      "RewriteFrames", "Vue">>
BROWSER_INTEGRATIONS ==
    <<"InboundFilters", "FunctionToString", "TryCatch", "Breadcrumbs", "GlobalHandlers",
      "LinkedErrors", "UserAgent">>
SERVER_INTEGRATIONS ==
    <<"CaptureConsole", "Debug", "Dedupe", "ExtraErrorData", "RewriteFrames", "Modules",
      "Transaction">>

Range(seq) == {seq[i] : i \in DOMAIN seq}
StrArr(seq) == A([i \in DOMAIN seq |-> S(seq[i])])

\* Object.keys order: the keys of an integration map are walked in this fixed
\* order (the names the allow-lists know, then the names they do not).
NameOrder ==
    <<"CaptureConsole", "Debug", "Dedupe", "ExtraErrorData", "ReportingObserver",
      "RewriteFrames", "Vue", "InboundFilters", "FunctionToString", "TryCatch",
      "Breadcrumbs", "GlobalHandlers", "LinkedErrors", "UserAgent", "Modules",
      "Transaction", "Foo", "Bar">>
ObjectKeys(o) == SelectSeq(NameOrder, LAMBDA n : n \in Keys(o))

filterDisabledIntegration(integrations) ==
    SelectSeq(ObjectKeys(integrations), LAMBDA key : Truthy(integrations.v[key]))

\* getApiMethods: the function-valued exports of the SDK package.
BrowserApiMethods ==
    StrArr(<<"init", "captureException", "captureMessage", "configureScope", "withScope">>)
NodeApiMethods ==
    StrArr(<<"init", "captureException", "captureMessage", "close", "flush">>)
getApiMethods(packageName) ==
    IF packageName = "@sentry/browser" THEN BrowserApiMethods ELSE NodeApiMethods

\* What the version-control CLI does when asked: the package cannot be imported,
\* proposeVersion() throws, or it returns a line of output.
WhiteSpace == {" ", "\n"}
trim(out) ==
    LET body == SelectSeq(out, LAMBDA tok : tok \notin WhiteSpace)
    IN IF body = <<>> THEN "" ELSE body[1]
CliImportFails == [kind |-> "noimport", out |-> <<>>]
CliThrows == [kind |-> "throws", out |-> <<>>]
CliReturns(out) == [kind |-> "returns", out |-> out]

\* resolveRelease: whether it invokes proposeVersion(), and what it returns.
releaseDetectionNeeded(opts) == ~Has(Get(opts, "config"), "release")
proposeVersionCallsAlways(opts, cli) == IF cli.kind # "noimport" THEN 1 ELSE 0

proposeVersionCalls(opts, cli) ==
    IF releaseDetectionNeeded(opts) /\ cli.kind # "noimport" THEN 1 ELSE 0
resolveRelease(opts, cli) ==
    IF releaseDetectionNeeded(opts) /\ cli.kind = "returns" THEN S(trim(cli.out)) ELSE U

defaultLazyOptions ==
    O([ injectMock |-> B(TRUE),
        injectLoadHook |-> B(FALSE),
        mockApiMethods |-> B(TRUE),
        chunkName |-> S("sentry"),
        webpackPrefetch |-> B(FALSE),
        webpackPreload |-> B(FALSE) ])

Includes(arr, x) == x \in Range(arr.v)

notfoundMethods(mockMethods, apiMethods) ==
    SelectSeq(mockMethods.v, LAMBDA method : ~Includes(apiMethods, method))

foundMethods(mockMethods, apiMethods) ==
    SelectSeq(mockMethods.v, LAMBDA method : Includes(apiMethods, method))

\* if (!list.includes('captureException')) list.push('captureException')
withCaptureException(found) ==
    IF S("captureException") \in Range(found)
    THEN A(found)
    ELSE A(Append(found, S("captureException")))

\* The value of lazy.mockApiMethods once resolveLazyOptions is done with it: the
\* chain has no final else, so any other value is left as it is.
resolveMockApiMethods(injectMock, m, apiMethods) ==
    IF ~Truthy(injectMock) THEN A(<<>>)
    ELSE IF m.t = "bool" /\ m.v THEN apiMethods
    ELSE IF IsArray(m) THEN withCaptureException(foundMethods(m, apiMethods))
    ELSE m

\* merge({}, defaultLazyOptions, options.lazy)
mergedLazy(opts) == merge3(EmptyObj, defaultLazyOptions, Get(opts, "lazy"))

withMockApiMethods(lazy, apiMethods) ==
    Put(lazy, "mockApiMethods",
        resolveMockApiMethods(Get(lazy, "injectMock"), Get(lazy, "mockApiMethods"), apiMethods))

resolveLazyOptions(opts, apiMethods) ==
    IF Truthy(Get(opts, "lazy"))
    THEN Put(opts, "lazy", withMockApiMethods(mergedLazy(opts), apiMethods))
    ELSE opts

\* The warning resolveLazyOptions logs for the methods it did not find.
notfoundWarning(notfound) ==
    IF notfound # <<>>
    THEN <<Log("warn", "Some specified methods to mock weren't found", A(notfound))>>
    ELSE <<>>
mockWarnings(lazy, apiMethods) ==
    IF Truthy(Get(lazy, "injectMock")) /\ IsArray(Get(lazy, "mockApiMethods"))
    THEN notfoundWarning(notfoundMethods(Get(lazy, "mockApiMethods"), apiMethods))
    ELSE <<>>
lazyWarnings(opts, apiMethods) ==
    IF Truthy(Get(opts, "lazy")) THEN mockWarnings(mergedLazy(opts), apiMethods) ELSE <<>>

defaultTracingOptions ==
    O([ tracesSampleRate |-> N(10),
        vueOptions |->
            O([ tracing |-> B(TRUE),
                tracingOptions |->
                    O([ hooks |-> StrArr(<<"mount", "update">>),
                        timeout |-> N(2000),
                        trackComponents |-> B(TRUE) ]) ]),
        browserOptions |-> EmptyObj ])

\* merge(defaults, typeof options.tracing === 'boolean' ? {} : options.tracing)
mergedTracing(tracing) ==
    merge2(defaultTracingOptions, IF tracing.t = "bool" THEN EmptyObj ELSE tracing)

\* if (!options.config.tracesSampleRate) options.config.tracesSampleRate = rate
withSampleRate(opts, rate) ==
    IF ~Truthy(Get(Get(opts, "config"), "tracesSampleRate"))
    THEN Put(opts, "config", Put(Get(opts, "config"), "tracesSampleRate", rate))
    ELSE opts

withTracing(opts, tracing) ==
    withSampleRate(Put(opts, "tracing", tracing), Get(tracing, "tracesSampleRate"))

resolveTracingOptions(opts) ==
    IF Truthy(Get(opts, "tracing"))
    THEN withTracing(opts, mergedTracing(Get(opts, "tracing")))
    ELSE opts

\* { ...a, ...b }
Spread(a, b) ==
    O([k \in Keys(a) \cup Keys(b) |-> IF k \in Keys(b) THEN b.v[k] ELSE a.v[k]])

\* delete o[k] for every k in ks
DeleteKeys(o, ks) == O([k \in Keys(o) \ ks |-> o.v[k]])

clientRecognizedPluggable(name) == name \in Range(PLUGGABLE_INTEGRATIONS)

clientRecognized(name) ==
    name \in Range(PLUGGABLE_INTEGRATIONS) \/ name \in Range(BROWSER_INTEGRATIONS)
serverRecognized(name) == name \in Range(SERVER_INTEGRATIONS)

unrecognizedWarnings(side, names) ==
    [i \in DOMAIN names |-> Log("warn", side, S(names[i]))]

\* The keys of an integration map that the loop of a resolver warns about and deletes.
unknownClientIntegrations(integrations) ==
    SelectSeq(ObjectKeys(integrations), LAMBDA name : ~clientRecognized(name))
unknownServerIntegrations(integrations) ==
    SelectSeq(ObjectKeys(integrations), LAMBDA name : ~serverRecognized(name))

\* options = merge({}, moduleOptions); options.clientConfig = merge({}, config, clientConfig)
withClientConfig(o) ==
    Put(o, "clientConfig", merge3(EmptyObj, Get(o, "config"), Get(o, "clientConfig")))
clientOptionsCopy(mo) == withClientConfig(merge2(EmptyObj, mo))

\* The private copy after resolveLazyOptions and resolveTracingOptions.
clientOptionsResolved(mo) ==
    resolveTracingOptions(resolveLazyOptions(clientOptionsCopy(mo), getApiMethods("@sentry/browser")))

dropUnknownClient(o) ==
    Put(o, "clientIntegrations",
        DeleteKeys(Get(o, "clientIntegrations"),
                   Range(unknownClientIntegrations(Get(o, "clientIntegrations")))))

\* The integrations of the client payload: the enabled ones, with their options.
enabledIntegrations(integrations) ==
    O([key \in Range(filterDisabledIntegration(integrations)) |-> integrations.v[key]])

clientPayload(nx, o) ==
    O([ PLUGGABLE_INTEGRATIONS |-> StrArr(PLUGGABLE_INTEGRATIONS),
        BROWSER_INTEGRATIONS |-> StrArr(BROWSER_INTEGRATIONS),
        dev |-> B(nx.dev),
        runtimeConfigKey |-> Get(o, "runtimeConfigKey"),
        config |-> Spread(O([dsn |-> Get(o, "dsn")]), Get(o, "clientConfig")),
        lazy |-> Get(o, "lazy"),
        apiMethods |-> getApiMethods("@sentry/browser"),
        logMockCalls |-> Get(o, "logMockCalls"),
        tracing |-> Get(o, "tracing"),
        initialize |-> B(canInitialize(o)),
        integrations |-> enabledIntegrations(Get(o, "clientIntegrations")) ])

clientWarnings(mo) ==
    lazyWarnings(clientOptionsCopy(mo), getApiMethods("@sentry/browser"))
    \o unrecognizedWarnings("clientIntegration is not recognized",
                            unknownClientIntegrations(Get(clientOptionsResolved(mo), "clientIntegrations")))

\* resolveClientOptions: what it returns and what it logs.
resolveClientOptions(nx, mo) ==
    [ payload |-> clientPayload(nx, dropUnknownClient(clientOptionsResolved(mo))),
      warnings |-> clientWarnings(mo) ]

\* new Integrations[name](opt) when opt has keys, new Integrations[name]() otherwise
newIntegration(name, opt) == IF Keys(opt) # {} THEN Inst(name, opt) ELSE Inst(name, U)

\* filterDisabledIntegration(options.serverIntegrations).map(name => new ...)
serverIntegrationInstances(integrations) ==
    A([i \in DOMAIN filterDisabledIntegration(integrations) |->
         newIntegration(filterDisabledIntegration(integrations)[i],
                        integrations.v[filterDisabledIntegration(integrations)[i]])])

\* The key under which resolveServerOptions stores the integration instances.
serverIntegrationsKey == "intergrations"

dropUnknownServer(o) ==
    Put(o, "serverIntegrations",
        DeleteKeys(Get(o, "serverIntegrations"),
                   Range(unknownServerIntegrations(Get(o, "serverIntegrations")))))

serverDefaultConfig(o) ==
    O([k \in {"dsn", serverIntegrationsKey} |->
         IF k = "dsn" THEN Get(o, "dsn")
         ELSE serverIntegrationInstances(Get(o, "serverIntegrations"))])

\* options.config = merge(defaultConfig, options.config, options.serverConfig)
withServerConfig(o) ==
    Put(o, "config", merge3(serverDefaultConfig(o), Get(o, "config"), Get(o, "serverConfig")))

\* merge(options.config, publicRuntimeConfig[key].config, publicRuntimeConfig[key].serverConfig)
withRuntimeConfig(o, prc) ==
    IF Truthy(Get(o, "runtimeConfigKey")) /\ Has(prc, Get(o, "runtimeConfigKey").v)
    THEN Put(o, "config",
             merge3(Get(o, "config"),
                    Get(Get(prc, Get(o, "runtimeConfigKey").v), "config"),
                    Get(Get(prc, Get(o, "runtimeConfigKey").v), "serverConfig")))
    ELSE o

\* The private copy once the configuration is merged, before the lazy and tracing steps.
serverOptionsMerged(nx, mo) ==
    withRuntimeConfig(withServerConfig(dropUnknownServer(merge2(EmptyObj, mo))),
                      nx.publicRuntimeConfig)

serverPayload(o) ==
    O([ config |-> Get(o, "config"),
        apiMethods |-> getApiMethods("@sentry/node"),
        lazy |-> Get(o, "lazy"),
        logMockCalls |-> Get(o, "logMockCalls") ])

serverWarnings(nx, mo) ==
    unrecognizedWarnings("serverIntegration is not recognized",
                         unknownServerIntegrations(Get(merge2(EmptyObj, mo), "serverIntegrations")))
    \o lazyWarnings(serverOptionsMerged(nx, mo), getApiMethods("@sentry/node"))

\* resolveServerOptions: what it returns and what it logs.
resolveServerOptions(nx, mo) ==
    [ payload |->
        serverPayload(resolveTracingOptions(
            resolveLazyOptions(serverOptionsMerged(nx, mo), getApiMethods("@sentry/node")))),
      warnings |-> serverWarnings(nx, mo) ]

----------------------------------------------------------------------------
(* core/hooks *)

RESOLVED_RELEASE_FILENAME == "sentry.release.config.js"

clientPluginVariant(opts) ==
    IF clientSentryEnabled(opts)
    THEN (IF Truthy(Get(opts, "lazy")) THEN "lazy" ELSE "client")
    ELSE "mocked"
serverPluginVariantAlways(opts) == "server"

serverPluginVariant(opts) == IF serverSentryEnabled(opts) THEN "server" ELSE "mocked"

\* The addPlugin calls of buildHook, given the release it resolved.
releaseSeed(release) == O([config |-> O([release |-> release])])
buildPlugins(opts, release, clientOptions, serverOptions) ==
    << [ src |-> clientPluginVariant(opts), fileName |-> "sentry.client.js", mode |-> "client",
         options |-> merge2(releaseSeed(release), clientOptions) ],
       [ src |-> serverPluginVariant(opts), fileName |-> "sentry.server.js", mode |-> "server",
         options |-> merge2(releaseSeed(release), serverOptions) ] >>

\* The addTemplate calls of buildHook.
buildTemplates(opts, release) ==
    IF serverSentryEnabled(opts)
    THEN << [src |-> "options.ejs", fileName |-> RESOLVED_RELEASE_FILENAME,
             options |-> O([release |-> release])] >>
    ELSE <<>>

\* a || b
Or(a, b) == IF Truthy(a) THEN a ELSE b

\* The directory the host builds into, and the url prefix derived from the host's
\* router base "/" and public path "/_nuxt/".
derivedUrlPrefix == "~/_nuxt/"
serverDist == ".nuxt/dist/server"
clientDist == ".nuxt/dist/client"

\* if (!publishRelease.urlPrefix) publishRelease.urlPrefix = ...
withUrlPrefix(p) ==
    IF ~Truthy(Get(p, "urlPrefix")) THEN Put(p, "urlPrefix", S(derivedUrlPrefix)) ELSE p

\* if (!Array.isArray(include)) include = [...(include ? [include] : [])]
includeArray(include) ==
    IF IsArray(include) THEN include ELSE A(IF Truthy(include) THEN <<include>> ELSE <<>>)

\* The include list with the build output directories pushed onto it.
withDist(include, opts) ==
    A(include.v
      \o (IF ~Truthy(Get(opts, "disableServerRelease")) THEN <<S(serverDist)>> ELSE <<>>)
      \o (IF ~Truthy(Get(opts, "disableClientRelease")) THEN <<S(clientDist)>> ELSE <<>>))

withInclude(p, opts) == Put(p, "include", withDist(includeArray(Get(p, "include")), opts))

\* publishRelease once the webpack:config hook has filled in urlPrefix and include.
webpackPublishRelease(opts) ==
    withInclude(withUrlPrefix(merge2(EmptyObj, Get(opts, "publishRelease"))), opts)

\* Whether the hook falls through to resolveRelease (the right operand of the || chain).
webpackNeedsDetection(opts) ==
    /\ ~Truthy(Get(Get(opts, "config"), "release"))
    /\ ~Truthy(Get(Get(opts, "publishRelease"), "release"))

webpackRelease(opts, cli) ==
    Or(Get(Get(opts, "config"), "release"),
       Or(Get(Get(opts, "publishRelease"), "release"), resolveRelease(opts, cli)))

\* setCommits, when SENTRY_AUTO_ATTACH_COMMITS asks for it.
withAuto(setCommits) ==
    IF Get(setCommits, "auto").t = "undef" THEN Put(setCommits, "auto", B(TRUE)) ELSE setCommits
withRepo(setCommits, repo) ==
    IF repo # "" /\ Get(setCommits, "repo").t = "undef"
    THEN Put(setCommits, "repo", S(repo)) ELSE setCommits
withSetCommits(p, e) ==
    IF envToBool(EnvVar(e, "SENTRY_AUTO_ATTACH_COMMITS"))
    THEN Put(p, "setCommits",
             withRepo(withAuto(Or(Get(p, "setCommits"), EmptyObj)),
                      EnvOr(e, "SENTRY_RELEASE_REPO", "")))
    ELSE p

setDevtoolOfLast(configs, style) ==
    [configs EXCEPT ![Len(configs)] = Put(configs[Len(configs)], "devtool", style)]

\* for (const config of webpackConfigs) config.devtool = options.sourceMapStyle
setDevtool(configs, style) ==
    [i \in DOMAIN configs |-> Put(configs[i], "devtool", style)]

\* config.plugins = config.plugins || []; config.plugins.push(plugin), on the last entry
pushPlugin(configs, plugin) ==
    LET n == Len(configs)
        last == configs[n]
        list == Or(Get(last, "plugins"), A(<<>>))
    IN [configs EXCEPT ![n] = Put(last, "plugins", A(Append(list.v, plugin)))]

MissingPluginError == "The \"@sentry/webpack-plugin\" package must be installed as a dev dependency"

\* The options the upload plugin is constructed with.
uploadPluginOptions(opts, e, release) ==
    withSetCommits(Put(webpackPublishRelease(opts), "release", release), e)

webpackWithReleaseNoBail(configs, opts, e, release, calls) ==
    [threw |-> "",
     configs |-> pushPlugin(configs, Inst("SentryWebpackPlugin", uploadPluginOptions(opts, e, release))),
     warnings |-> <<Log("warn", "Sentry release will not be published", U)>>,
     calls |-> calls]

\* The hook once the plugin package is imported and the release is known.
webpackWithRelease(configs, opts, e, release, calls) ==
    IF ~Truthy(release)
    THEN [threw |-> "", configs |-> configs,
          warnings |-> <<Log("warn", "Sentry release will not be published", U)>>,
          calls |-> calls]
    ELSE [threw |-> "",
          configs |-> pushPlugin(setDevtool(configs, Get(opts, "sourceMapStyle")),
                                 Inst("SentryWebpackPlugin", uploadPluginOptions(opts, e, release))),
          warnings |-> <<>>, calls |-> calls]

\* webpackConfigHook: what it throws, the configurations as it leaves them, what it
\* logs and how often it invoked proposeVersion().
webpackConfigHook(configs, opts, e, installed, cli) ==
    IF ~installed
    THEN [threw |-> MissingPluginError, configs |-> configs, warnings |-> <<>>, calls |-> 0]
    ELSE webpackWithRelease(configs, opts, e, webpackRelease(opts, cli),
                            IF webpackNeedsDetection(opts)
                            THEN proposeVersionCalls(opts, cli) ELSE 0)

alreadyInitializedNever(marker) == FALSE

\* if (process.sentry) return
alreadyInitialized(marker) == marker

\* The release the server init hook reads back from the generated file (undefined
\* when the file is not there).
releaseFromFile(tpls) ==
    IF \E i \in DOMAIN tpls : tpls[i].fileName = RESOLVED_RELEASE_FILENAME
    THEN Get(tpls[Len(tpls)].options, "release")
    ELSE U

\* The configuration initializeServerSentry hands to Sentry.init.
serverInitConfig(tpls, serverConfig) ==
    merge2(O([release |-> releaseFromFile(tpls)]), serverConfig)

----------------------------------------------------------------------------
(* Inputs: the environment, the host's options and the user's configuration *)

\* How many keys the user (and the host) set away from their defaults.
MaxUserKeys == 2
\* How many build configurations the host passes to webpack:config.
MaxConfigs == 3
\* How many times the host fires the server init and generate:done hooks.
MaxHookCalls == 3
\* How many of the flag variables the environment sets at once, and how many
\* flags the user sets beside them.
MaxEnvVars == 1

FlagVars ==
    [ disabled |-> "SENTRY_DISABLED",
      initialize |-> "SENTRY_INITIALIZE",
      disableClientSide |-> "SENTRY_DISABLE_CLIENT_SIDE",
      disableServerSide |-> "SENTRY_DISABLE_SERVER_SIDE",
      publishRelease |-> "SENTRY_PUBLISH_RELEASE",
      disableServerRelease |-> "SENTRY_DISABLE_SERVER_RELEASE",
      disableClientRelease |-> "SENTRY_DISABLE_CLIENT_RELEASE" ]
Flags == DOMAIN FlagVars
CharVars == Range(FlagVars) \cup {"SENTRY_AUTO_ATTACH_COMMITS"}
StringVars == {"SENTRY_DSN", "SENTRY_RELEASE_REPO"}

EmptyEnv ==
    [n \in CharVars \cup StringVars |->
       IF n \in StringVars THEN [set |-> FALSE, val |-> ""] ELSE Unset]

EnvValues ==
    { <<>>, <<"0">>, <<"1">>, <<"f", "a", "l", "s", "e">>, <<"F", "A", "L", "S", "E">>,
      <<"F", "a", "l", "s", "e">>, <<"t", "r", "u", "e">>, <<"y", "e", "s">>, <<"0", "0">> }

Dsn == S("https://key@sentry.example/1")

\* The options the server init and shutdown hooks depend on.
SentrySlots ==
    [ disabled |-> {B(TRUE)},
      disableServerSide |-> {B(TRUE)},
      initialize |-> {B(FALSE)},
      dsn |-> {Dsn},
      config |-> {O([release |-> S("v1")])},
      serverIntegrations |->
          { O([Dedupe |-> B(FALSE), Foo |-> EmptyObj, Modules |-> O([level |-> S("x")])]) } ]
SentryHostSlots == [build |-> {TRUE}]

\* The options the build hooks depend on.
BuildSlots ==
    [ disabled |-> {B(TRUE)},
      disableServerSide |-> {B(TRUE)},
      disableClientSide |-> {B(TRUE)},
      dsn |-> {Dsn},
      lazy |-> {B(TRUE)},
      publishRelease |-> {B(TRUE), O([release |-> S("r1")])},
      disableServerRelease |-> {B(TRUE)},
      sourceMapStyle |-> {S("hidden-source-map")},
      config |-> {O([release |-> S("v1")]), O([release |-> S("")])} ]
BuildHostSlots == [dev |-> {TRUE}, build |-> {TRUE}]

\* The options the option resolvers depend on.
ResolverSlots ==
    [ dsn |-> {Dsn},
      publishRelease |->
          { O([include |-> StrArr(<<"extra">>), ignore |-> StrArr(<<"tmp">>)]) },
      config |->
          { O([ignoreErrors |-> StrArr(<<"a", "b">>)]),
            O([tracesSampleRate |-> N(0)]), O([tracesSampleRate |-> N(2)]) },
      clientConfig |-> {O([ignoreErrors |-> StrArr(<<"c">>)])},
      serverConfig |-> {O([ignoreErrors |-> StrArr(<<"s">>)])},
      lazy |->
          { B(TRUE), O([injectMock |-> B(FALSE)]),
            O([mockApiMethods |-> StrArr(<<"foo", "captureMessage">>)]),
            O([mockApiMethods |-> StrArr(<<"captureException", "init">>)]),
            O([mockApiMethods |-> B(FALSE)]) },
      tracing |-> {B(TRUE), O([tracesSampleRate |-> N(5)])},
      clientIntegrations |->
          { O([Vue |-> EmptyObj, Foo |-> EmptyObj]),
            O([Dedupe |-> B(FALSE), TryCatch |-> O([level |-> S("x")]), Bar |-> B(FALSE)]) },
      serverIntegrations |->
          { O([Dedupe |-> B(FALSE)]),
            O([Foo |-> EmptyObj, Modules |-> O([level |-> S("x")])]),
            O([Vue |-> EmptyObj, Bar |-> B(FALSE)]) } ]

ResolverHostSlots ==
    [ sentry |->
          { O([config |-> O([ignoreErrors |-> StrArr(<<"t">>)])]),
            O([ config |-> O([ignoreErrors |-> StrArr(<<"t">>)]),
                clientConfig |-> O([ignoreErrors |-> StrArr(<<"c">>)]) ]),
            O([publishRelease |-> O([include |-> StrArr(<<"top">>)])]) },
      publicRuntimeConfig |->
          { O([sentry |-> O([config |-> O([ignoreErrors |-> StrArr(<<"r">>)])])]) } ]

HostDefaults ==
    [dev |-> FALSE, build |-> FALSE, sentry |-> U, publicRuntimeConfig |-> EmptyObj]

RECURSIVE Choices(_, _)
\* Every way to give each key of ks one of its slot values.
Choices(slots, ks) ==
    IF ks = {} THEN {EmptyFn}
    ELSE LET k == CHOOSE x \in ks : TRUE
         IN { [j \in DOMAIN f \cup {k} |-> IF j = k THEN val ELSE f[j]] :
                f \in Choices(slots, ks \ {k}), val \in slots[k] }

\* The user's inline options and the host's options with at most n keys set.
UserInputs(moduleSlots, hostSlots, n) ==
    UNION { { [mo |-> O(m), nx |-> [k \in DOMAIN HostDefaults |->
                                      IF k \in DOMAIN h THEN h[k] ELSE HostDefaults[k]]] :
                m \in Choices(moduleSlots, pr[1]), h \in Choices(hostSlots, pr[2]) } :
            pr \in { q \in (SUBSET DOMAIN moduleSlots) \X (SUBSET DOMAIN hostSlots) :
                       Cardinality(q[1]) + Cardinality(q[2]) <= n } }

\* Environments that set at most n of the flag variables, and user options that
\* set at most n flags explicitly.
EnvInputs(n) ==
    UNION { { [v \in DOMAIN EmptyEnv |-> IF v \in DOMAIN f THEN EnvStr(f[v]) ELSE EmptyEnv[v]] :
                f \in [vs -> EnvValues] } :
            vs \in {x \in SUBSET Range(FlagVars) : Cardinality(x) <= n} }
FlagInputs(n) ==
    UNION { { O([k \in ks |-> B(f[k])]) : f \in [ks -> BOOLEAN] } :
            ks \in {x \in SUBSET Flags : Cardinality(x) <= n} }

CliOutcomes ==
    { CliImportFails, CliThrows, CliReturns(<<"\n">>), CliReturns(<<" ", "abc123", "\n">>) }

\* The build configurations the host may pass to webpack:config: the first n of
\* its builds, in its order, and never none.
HostConfigs(n) ==
    [ i \in 1..n |->
        IF i % 2 = 1
        THEN O([name |-> S("client"), devtool |-> S("cheap-module-source-map")])
        ELSE O([name |-> S("server"), devtool |-> B(FALSE),
                plugins |-> A(<<Inst("Other", U)>>)]) ]
WebpackInputs == { HostConfigs(n) : n \in 1..MaxConfigs }

----------------------------------------------------------------------------
(* The state machine *)

NotRun == [ran |-> FALSE, installed |-> FALSE, detection |-> CliImportFails, threw |-> "",
           before |-> <<>>, after |-> <<>>, warnings |-> 0, calls |-> 0]
NoCall == [op |-> "none", marker |-> FALSE, activated |-> FALSE, closed |-> FALSE]

InitWith(e, nx, mo) ==
    /\ env = e
    /\ nuxt = nx
    /\ moduleOptions = mo
    /\ phase = "new"
    /\ options = EmptyObj
    /\ hooks = {}
    /\ logs = <<>>
    /\ plugins = <<>>
    /\ templates = <<>>
    /\ buildDone = FALSE
    /\ cliCalls = 0
    /\ processSentry = FALSE
    /\ sentryConfig = U
    /\ activations = 0
    /\ closes = 0
    /\ hookCalls = 0
    /\ lastCall = NoCall
    /\ webpack = NotRun

Init ==
    \E u \in UserInputs(SentrySlots, SentryHostSlots, MaxUserKeys) :
        InitWith(EmptyEnv, u.nx, u.mo)

InitBuild ==
    \E u \in UserInputs(BuildSlots, BuildHostSlots, MaxUserKeys) :
        InitWith(EmptyEnv, u.nx, u.mo)

InitResolve ==
    \E u \in UserInputs(ResolverSlots, ResolverHostSlots, MaxUserKeys) :
        InitWith(EmptyEnv, u.nx, u.mo)

InitEnv ==
    \E e \in EnvInputs(MaxEnvVars), mo \in FlagInputs(MaxEnvVars) :
        InitWith(e, HostDefaults, mo)

\* The module's setup function.
Setup ==
    /\ phase = "new"
    /\ phase' = "setup"
    /\ options' = setupOptions(env, nuxt, moduleOptions)
    /\ hooks' = setupHooks(options', nuxt)
    /\ logs' = Append(logs, setupStatus(options'))
    /\ UNCHANGED <<env, nuxt, moduleOptions, plugins, templates, buildDone, cliCalls,
                   processSentry, sentryConfig, activations, closes, hookCalls,
                   lastCall, webpack>>

\* The build:before hook (buildHook).
BuildBefore ==
    /\ phase = "setup"
    /\ "build:before" \in hooks
    /\ ~buildDone
    /\ LET client == resolveClientOptions(nuxt, options)
           server == resolveServerOptions(nuxt, options)
       IN /\ \E cli \in CliOutcomes :
               LET release == resolveRelease(options, cli) IN
               /\ cliCalls' = cliCalls + proposeVersionCalls(options, cli)
               /\ plugins' = plugins \o buildPlugins(options, release, client.payload, server.payload)
               /\ templates' = templates \o buildTemplates(options, release)
          /\ logs' = logs \o client.warnings \o server.warnings
    /\ buildDone' = TRUE
    /\ UNCHANGED <<env, nuxt, moduleOptions, phase, options, hooks, processSentry,
                   sentryConfig, activations, closes, hookCalls, lastCall, webpack>>

\* The webpack:config hook (webpackConfigHook).
WebpackConfig ==
    /\ phase = "setup"
    /\ "webpack:config" \in hooks
    /\ buildDone
    /\ ~webpack.ran
    /\ \E installed \in BOOLEAN, configs \in WebpackInputs, cli \in CliOutcomes :
         LET r == webpackConfigHook(configs, options, env, installed, cli) IN
         /\ webpack' = [ran |-> TRUE, installed |-> installed, detection |-> cli,
                        threw |-> r.threw, before |-> configs, after |-> r.configs,
                        warnings |-> Len(r.warnings), calls |-> r.calls]
         /\ logs' = logs \o r.warnings
         /\ cliCalls' = cliCalls + r.calls
    /\ UNCHANGED <<env, nuxt, moduleOptions, phase, options, hooks, plugins, templates,
                   buildDone, processSentry, sentryConfig, activations, closes,
                   hookCalls, lastCall>>

\* The build:compile / ready hook (initializeServerSentry).
InitializeServerSentry ==
    /\ phase = "setup"
    /\ initHook(nuxt) \in hooks
    /\ hookCalls < MaxHookCalls
    /\ hookCalls' = hookCalls + 1
    /\ IF alreadyInitialized(processSentry)
       THEN /\ lastCall' = [op |-> "init", marker |-> processSentry, activated |-> FALSE,
                            closed |-> FALSE]
            /\ UNCHANGED <<logs, sentryConfig, activations, processSentry>>
       ELSE LET server == resolveServerOptions(nuxt, options) IN
            /\ logs' = logs \o server.warnings
            /\ IF canInitialize(options)
               THEN /\ sentryConfig' = serverInitConfig(templates, Get(server.payload, "config"))
                    /\ activations' = activations + 1
               ELSE UNCHANGED <<sentryConfig, activations>>
            /\ processSentry' = TRUE
            /\ lastCall' = [op |-> "init", marker |-> processSentry,
                            activated |-> canInitialize(options), closed |-> FALSE]
    /\ UNCHANGED <<env, nuxt, moduleOptions, phase, options, hooks, plugins, templates,
                   buildDone, cliCalls, closes, webpack>>

\* The generate:done hook (shutdownServerSentry).
ShutdownServerSentry ==
    /\ phase = "setup"
    /\ "generate:done" \in hooks
    /\ hookCalls < MaxHookCalls
    /\ hookCalls' = hookCalls + 1
    /\ lastCall' = [op |-> "shutdown", marker |-> processSentry, activated |-> FALSE,
                    closed |-> processSentry]
    /\ IF processSentry
       THEN /\ closes' = closes + 1
            /\ processSentry' = FALSE
            /\ activations' = 0
       ELSE UNCHANGED <<closes, processSentry, activations>>
    /\ UNCHANGED <<env, nuxt, moduleOptions, phase, options, hooks, logs, plugins,
                   templates, buildDone, cliCalls, sentryConfig, webpack>>

\* One process: setup, the build:before hook, and the server init and
\* generate:done hooks as often as the host fires them.
Next ==
    \/ Setup
    \/ BuildBefore
    \/ InitializeServerSentry
    \/ ShutdownServerSentry

Spec == Init /\ [][Next]_vars

\* One build's hook sequence: setup, build:before, webpack:config.
NextBuild ==
    \/ Setup
    \/ BuildBefore
    \/ WebpackConfig
SpecBuild == InitBuild /\ [][NextBuild]_vars

\* Setup and the build:before hook, over the options the resolvers depend on.
NextResolve ==
    \/ Setup
    \/ BuildBefore
SpecResolve == InitResolve /\ [][NextResolve]_vars

\* Setup alone, over the environments that set the flag variables.
NextEnv == Setup
SpecEnv == InitEnv /\ [][NextEnv]_vars

----------------------------------------------------------------------------
(* Claims *)

InitCalled == hookCalls' = hookCalls + 1 /\ lastCall'.op = "init"
ShutdownCalled == hookCalls' = hookCalls + 1 /\ lastCall'.op = "shutdown"

\* C1: between two shutdowns the reporting client is activated at most once. An
\* init call that finds the marker unset sets it, and activates the client exactly
\* when initialize and a DSN are both given; an init call that finds the marker set
\* changes nothing. A shutdown call that finds the marker set closes the client and
\* clears the marker; one that finds it unset changes nothing.
C1_ActivatedAtMostOnce ==
    /\ [](activations <= 1)
    /\ []((~Truthy(Get(options, "initialize")) \/ ~Truthy(Get(options, "dsn")))
            => activations = 0 /\ sentryConfig = U)
    /\ [][ /\ (InitCalled /\ processSentry) =>
                UNCHANGED <<processSentry, activations, sentryConfig, logs, closes>>
           /\ (InitCalled /\ ~processSentry) =>
                /\ processSentry'
                /\ closes' = closes
                /\ IF Truthy(Get(options, "initialize")) /\ Truthy(Get(options, "dsn"))
                   THEN activations' = 1 /\ sentryConfig' # U
                   ELSE activations' = 0
           /\ (ShutdownCalled /\ processSentry) =>
                ~processSentry' /\ closes' = closes + 1 /\ activations' = 0
           /\ (ShutdownCalled /\ ~processSentry) =>
                UNCHANGED <<processSentry, activations, sentryConfig, logs, closes>>
         ]_vars

\* A second init call found the marker set after the first one activated the client.
C1_Witness ==
    /\ lastCall.op = "init"
    /\ lastCall.marker
    /\ ~lastCall.activated
    /\ activations = 1
    /\ canInitialize(options)

ServerSideOff ==
    Truthy(Get(options, "disabled")) \/ Truthy(Get(options, "disableServerSide"))
ServerSideHooks ==
    { "render:setupMiddleware", "render:errorMiddleware", "generate:routeFailed",
      "build:compile", "ready", "generate:done" }
ReleaseTemplates == { i \in 1..Len(templates) : templates[i].src = "options.ejs" }

\* C2: when server-side reporting is off (disabled or disableServerSide is truthy)
\* none of the request handler, the error handler, the route-failure reporter, the
\* server init hook and the generate:done shutdown hook is registered, the server
\* plugin is the mocked variant and no resolved-release template is registered;
\* when it is on, all five are registered, the server plugin is the real variant
\* and exactly one release template is registered.
C2_ServerGating ==
    /\ phase = "setup" =>
         IF ServerSideOff
         THEN hooks \cap ServerSideHooks = {}
         ELSE hooks \cap ServerSideHooks =
                { "render:setupMiddleware", "render:errorMiddleware", "generate:routeFailed",
                  IF nuxt.build THEN "build:compile" ELSE "ready", "generate:done" }
    /\ buildDone =>
         /\ Len(plugins) = 2
         /\ plugins[2].mode = "server"
         /\ IF ServerSideOff
            THEN plugins[2].src = "mocked" /\ ReleaseTemplates = {}
            ELSE plugins[2].src = "server" /\ Cardinality(ReleaseTemplates) = 1

\* A build with only the server side switched off registered the mocked server plugin.
C2_Witness ==
    /\ buildDone
    /\ Truthy(Get(options, "disableServerSide"))
    /\ ~Truthy(Get(options, "disabled"))
    /\ plugins[2].src = "mocked"
    /\ "generate:done" \notin hooks

UserRelease == Get(Get(options, "config"), "release")
PublishReleaseRelease == Get(Get(options, "publishRelease"), "release")

\* C3 as stated: proposeVersion() is invoked at most once in one build, across
\* setup, build:before and webpack:config, also when the user set no release and
\* release publishing is on.
C3_AtMostOncePerBuild == cliCalls <= 1

\* C3, amended: proposeVersion() is invoked at most once by build:before and at
\* most once by webpack:config, and never when config has a release key. A build
\* invokes it twice only when webpack:config ran with neither config.release nor
\* publishRelease.release truthy; a webpack:config hook that finds one of the two
\* truthy does not invoke it.
C3_AtMostOncePerHook ==
    /\ cliCalls <= 2
    /\ webpack.calls <= 1
    /\ cliCalls - webpack.calls <= 1
    /\ ~buildDone => cliCalls = 0
    /\ (phase = "setup" /\ UserRelease.t # "undef") => cliCalls = 0
    /\ (webpack.ran /\ (Truthy(UserRelease) \/ Truthy(PublishReleaseRelease)))
         => webpack.calls = 0
    /\ cliCalls = 2 =>
         /\ webpack.ran
         /\ webpack.installed
         /\ UserRelease.t = "undef"
         /\ ~Truthy(PublishReleaseRelease)

\* A build with release publishing on and no release set ran proposeVersion() in
\* build:before and again in webpack:config.
C3_Witness ==
    /\ cliCalls = 2
    /\ webpack.ran
    /\ Truthy(Get(options, "publishRelease"))
    /\ UserRelease.t = "undef"

ClientAllowList ==
    { "CaptureConsole", "Debug", "Dedupe", "ExtraErrorData", "ReportingObserver",
      "RewriteFrames", "Vue", "InboundFilters", "FunctionToString", "TryCatch",
      "Breadcrumbs", "GlobalHandlers", "LinkedErrors", "UserAgent" }
ServerAllowList ==
    { "CaptureConsole", "Debug", "Dedupe", "ExtraErrorData", "RewriteFrames", "Modules",
      "Transaction" }

ClientToggles == Get(options, "clientIntegrations")
ServerToggles == Get(options, "serverIntegrations")
ClientResolved == plugins[1].options
ServerResolved == plugins[2].options
ServerInstances == Get(Get(ServerResolved, "config"), serverIntegrationsKey)
WarningsAbout(msg, name) ==
    Cardinality({ i \in DOMAIN logs : logs[i].msg = msg /\ logs[i].arg = S(name) })
WarningsOf(msg) == Cardinality({ i \in DOMAIN logs : logs[i].msg = msg })

\* C4: the integrations in the client payload are exactly the toggles whose key is
\* on the client allow-list and whose value is truthy, each with its options; the
\* server resolver instantiates exactly the toggles whose key is on the server
\* allow-list and whose value is truthy, once each; every key off the side's
\* allow-list is logged in exactly one warning, and no other key is warned about.
C4_IntegrationFiltering ==
    buildDone =>
      /\ Keys(Get(ClientResolved, "integrations")) =
           { k \in Keys(ClientToggles) : k \in ClientAllowList /\ Truthy(ClientToggles.v[k]) }
      /\ \A k \in Keys(Get(ClientResolved, "integrations")) :
           Get(ClientResolved, "integrations").v[k] = ClientToggles.v[k]
      /\ { ServerInstances.v[i].v.name : i \in DOMAIN ServerInstances.v } =
           { k \in Keys(ServerToggles) : k \in ServerAllowList /\ Truthy(ServerToggles.v[k]) }
      /\ \A i, j \in DOMAIN ServerInstances.v :
           ServerInstances.v[i].v.name = ServerInstances.v[j].v.name => i = j
      /\ \A k \in Keys(ClientToggles) :
           WarningsAbout("clientIntegration is not recognized", k) =
             IF k \in ClientAllowList THEN 0 ELSE 1
      /\ \A k \in Keys(ServerToggles) :
           WarningsAbout("serverIntegration is not recognized", k) =
             IF k \in ServerAllowList THEN 0 ELSE 1
      /\ WarningsOf("clientIntegration is not recognized") =
           Cardinality(Keys(ClientToggles) \ ClientAllowList)
      /\ WarningsOf("serverIntegration is not recognized") =
           Cardinality(Keys(ServerToggles) \ ServerAllowList)

\* The client resolver kept an enabled browser integration, dropped a disabled one
\* and warned about an unknown key.
C4_Witness ==
    /\ buildDone
    /\ Keys(ClientToggles) \ ClientAllowList # {}
    /\ "TryCatch" \in Keys(Get(ClientResolved, "integrations"))
    /\ "Dedupe" \notin Keys(Get(ClientResolved, "integrations"))
    /\ WarningsOf("clientIntegration is not recognized") = 1

UserLazy == Get(options, "lazy")
SuppliedInjectMock == IF Has(UserLazy, "injectMock") THEN Truthy(UserLazy.v.injectMock) ELSE TRUE
SuppliedMockApiMethods == Get(UserLazy, "mockApiMethods")
CaptureException == S("captureException")
FoundIn(api) == SelectSeq(SuppliedMockApiMethods.v, LAMBDA method : method \in Range(api.v))
NotFoundIn(api) == SelectSeq(SuppliedMockApiMethods.v, LAMBDA method : method \notin Range(api.v))
ExpectedMockList(api) ==
    IF CaptureException \in Range(FoundIn(api))
    THEN FoundIn(api) ELSE Append(FoundIn(api), CaptureException)
ExpectedMockWarnings(api) ==
    IF SuppliedInjectMock /\ IsArray(SuppliedMockApiMethods) /\ NotFoundIn(api) # <<>>
    THEN << A(NotFoundIn(api)) >> ELSE << >>
MockWarnings ==
    LET found == SelectSeq(logs, LAMBDA l : l.msg = "Some specified methods to mock weren't found")
    IN [i \in DOMAIN found |-> found[i].arg]

\* What C5 says of one side's payload.
MockResolution(payload) ==
    LET api == Get(payload, "apiMethods")
        resolved == Get(Get(payload, "lazy"), "mockApiMethods")
    IN /\ ~SuppliedInjectMock => resolved = A(<< >>)
       /\ (SuppliedInjectMock /\ SuppliedMockApiMethods \in {U, B(TRUE)}) => resolved = api
       /\ (SuppliedInjectMock /\ IsArray(SuppliedMockApiMethods)) =>
            resolved = A(ExpectedMockList(api))
       /\ SuppliedInjectMock =>
            /\ IsArray(resolved)
            /\ CaptureException \in Range(resolved.v)
            /\ Range(resolved.v) \subseteq Range(api.v) \cup {CaptureException}

\* C5: with lazy loading on, the resolved mockApiMethods is empty when injectMock is
\* false, all discovered API methods when mockApiMethods is true or not supplied,
\* and for a supplied list the supplied methods found in the API, in their order,
\* with captureException appended if absent, one warning naming the methods not
\* found (none when all were found); so whenever mocking is on the resolved list
\* contains captureException and only API methods or captureException.
C5_MockMethods ==
    (buildDone /\ Truthy(UserLazy)) =>
      /\ MockResolution(ClientResolved)
      /\ MockResolution(ServerResolved)
      /\ MockWarnings = ExpectedMockWarnings(Get(ClientResolved, "apiMethods"))
                          \o ExpectedMockWarnings(Get(ServerResolved, "apiMethods"))

ArrayAt(o, k) == IF IsArray(Get(o, k)) THEN Get(o, k).v ELSE << >>
IgnoreErrors(o) == ArrayAt(o, "ignoreErrors")
TopLevel == IF nuxt.sentry.t = "obj" THEN nuxt.sentry ELSE EmptyObj
RuntimeOverlay == Get(nuxt.publicRuntimeConfig, "sentry")
DefaultIgnore == << S("node_modules"), S(".nuxt/dist/client/img") >>
\* b laid over a: position i holds b[i] where b has one, a[i] beyond the end of b.
Overlay(a, b) ==
    [i \in 1..Max(Len(a), Len(b)) |-> IF i <= Len(b) THEN b[i] ELSE a[i]]

\* The arrays of the setup chain and of the release-publishing merge are
\* concatenated in input order.
SetupConcatenates ==
    /\ IgnoreErrors(Get(options, "config")) =
         IgnoreErrors(Get(TopLevel, "config")) \o IgnoreErrors(Get(moduleOptions, "config"))
    /\ IgnoreErrors(Get(options, "clientConfig")) =
         IgnoreErrors(Get(TopLevel, "clientConfig"))
           \o IgnoreErrors(Get(moduleOptions, "clientConfig"))
    /\ Truthy(Get(options, "publishRelease")) =>
         /\ ArrayAt(Get(options, "publishRelease"), "include") =
              ArrayAt(Get(TopLevel, "publishRelease"), "include")
                \o ArrayAt(Get(moduleOptions, "publishRelease"), "include")
         /\ ArrayAt(Get(options, "publishRelease"), "ignore") =
              DefaultIgnore \o ArrayAt(Get(TopLevel, "publishRelease"), "ignore")
                \o ArrayAt(Get(moduleOptions, "publishRelease"), "ignore")

\* C6 as stated: wherever two merge inputs give an array at the same key the result
\* is their concatenation in input order: in the setup chain, in the merge of the
\* release-publishing defaults with the user's publishRelease, and in the
\* resolvers' merge of config with clientConfig and of config with serverConfig.
C6_ConcatenatesEverywhere ==
    /\ phase = "setup" => SetupConcatenates
    /\ buildDone =>
         /\ IgnoreErrors(Get(ClientResolved, "config")) =
              IgnoreErrors(Get(options, "config")) \o IgnoreErrors(Get(options, "clientConfig"))
         /\ IgnoreErrors(Get(ServerResolved, "config")) =
              IgnoreErrors(Get(options, "config")) \o IgnoreErrors(Get(options, "serverConfig"))
                \o IgnoreErrors(Get(RuntimeOverlay, "config"))

\* C6, amended: the setup chain and the release-publishing merge concatenate the
\* arrays of their inputs in input order; the resolvers' merges of config with
\* clientConfig, and of config with serverConfig and the runtime configuration,
\* lay the later array over the earlier one index by index.
C6_ConcatenatesInSetupOnly ==
    /\ phase = "setup" => SetupConcatenates
    /\ buildDone =>
         /\ IgnoreErrors(Get(ClientResolved, "config")) =
              Overlay(IgnoreErrors(Get(options, "config")),
                      IgnoreErrors(Get(options, "clientConfig")))
         /\ IgnoreErrors(Get(ServerResolved, "config")) =
              Overlay(Overlay(IgnoreErrors(Get(options, "config")),
                              IgnoreErrors(Get(options, "serverConfig"))),
                      IgnoreErrors(Get(RuntimeOverlay, "config")))

\* The setup chain concatenated the host's and the module's ignoreErrors, and the
\* client resolver laid clientConfig's one entry over the first of the three.
C6_Witness ==
    /\ buildDone
    /\ IgnoreErrors(Get(options, "config")) = << S("t"), S("a"), S("b") >>
    /\ IgnoreErrors(Get(options, "clientConfig")) = << S("c") >>
    /\ IgnoreErrors(Get(ClientResolved, "config")) = << S("c"), S("a"), S("b") >>

HookCompleted == webpack.ran /\ webpack.threw = ""
PluginsOf(config) == ArrayAt(config, "plugins")
UploadPlugins(config) ==
    { i \in DOMAIN PluginsOf(config) : PluginsOf(config)[i].v.name = "SentryWebpackPlugin" }
UploadPluginAdded ==
    \E i \in DOMAIN webpack.after : PluginsOf(webpack.after[i]) # PluginsOf(webpack.before[i])
\* The upload plugin is appended to the last entry and to no other.
AppendedToLastOnly ==
    LET n == Len(webpack.after) IN
    /\ n = Len(webpack.before)
    /\ \A i \in 1..(n - 1) : Get(webpack.after[i], "plugins") = Get(webpack.before[i], "plugins")
    /\ Len(PluginsOf(webpack.after[n])) = Len(PluginsOf(webpack.before[n])) + 1
    /\ SubSeq(PluginsOf(webpack.after[n]), 1, Len(PluginsOf(webpack.before[n])))
         = PluginsOf(webpack.before[n])
    /\ UploadPlugins(webpack.after[n]) = { Len(PluginsOf(webpack.after[n])) }
DevtoolEverywhere ==
    \A i \in DOMAIN webpack.after :
        Get(webpack.after[i], "devtool") = Get(options, "sourceMapStyle")

\* C7 as stated: once webpackConfigHook has completed, every entry's devtool is the
\* configured sourceMapStyle whether or not a release could be resolved, and the
\* upload plugin is appended only to the last entry (never to another one).
C7_DevtoolAlways ==
    HookCompleted =>
      /\ DevtoolEverywhere
      /\ UploadPluginAdded => AppendedToLastOnly

\* C7, amended: once webpackConfigHook has completed with a release, every entry's
\* devtool is the configured sourceMapStyle and the upload plugin is appended to
\* the last entry only, the other entries' plugin lists unchanged; once it has
\* completed without a release, it has changed no entry at all.
C7_DevtoolWithRelease ==
    HookCompleted =>
      IF webpack.warnings = 0
      THEN DevtoolEverywhere /\ AppendedToLastOnly
      ELSE webpack.after = webpack.before

\* The hook completed with a release on three configurations, the last one without
\* a plugin list of its own.
C7_Witness ==
    /\ HookCompleted
    /\ webpack.warnings = 0
    /\ Len(webpack.after) = 3
    /\ ~Has(webpack.before[3], "plugins")
    /\ Get(webpack.after[1], "devtool") # Get(webpack.before[1], "devtool")

DetectionYieldsNothing ==
    \/ webpack.detection.kind \in {"noimport", "throws"}
    \/ trim(webpack.detection.out) = ""

\* C8: when the plugin package is installed, neither config.release nor
\* publishRelease.release is set and detection fails or yields nothing,
\* webpackConfigHook logs exactly one warning, appends no plugin (it leaves every
\* entry as it was) and completes normally; the only error it ever raises is the
\* one for the missing plugin package, raised exactly when the package is missing.
C8_BailsWithoutRelease ==
    webpack.ran =>
      /\ ( /\ webpack.installed
           /\ ~Truthy(UserRelease)
           /\ ~Truthy(PublishReleaseRelease)
           /\ DetectionYieldsNothing )
         => /\ webpack.threw = ""
            /\ webpack.warnings = 1
            /\ WarningsOf("Sentry release will not be published") = 1
            /\ webpack.after = webpack.before
      /\ webpack.threw # "" <=> ~webpack.installed
      /\ webpack.threw \in {"", MissingPluginError}
      /\ ~webpack.installed => webpack.after = webpack.before /\ webpack.warnings = 0

\* The hook bailed out after the version-control CLI threw.
C8_Witness ==
    /\ webpack.ran
    /\ webpack.installed
    /\ webpack.detection.kind = "throws"
    /\ UserRelease.t = "undef"
    /\ webpack.calls = 1
    /\ webpack.warnings = 1
    /\ webpack.threw = ""

AnyCasingOfFalse(val) ==
    /\ Len(val) = 5
    /\ val[1] \in {"f", "F"}
    /\ val[2] \in {"a", "A"}
    /\ val[3] \in {"l", "L"}
    /\ val[4] \in {"s", "S"}
    /\ val[5] \in {"e", "E"}
\* What C9 says of one flag.
FlagFollowsEnv(flag) ==
    IF Has(moduleOptions, flag)
    THEN Truthy(Get(options, flag)) = Truthy(moduleOptions.v[flag])
    ELSE (env[FlagVars[flag]].set /\ env[FlagVars[flag]].val # << >>) =>
           Truthy(Get(options, flag)) =
             ~(env[FlagVars[flag]].val = << "0" >> \/ AnyCasingOfFalse(env[FlagVars[flag]].val))

\* C9: for each of the flags disabled, initialize, disableClientSide,
\* disableServerSide, publishRelease, disableServerRelease and disableClientRelease,
\* a flag the user does not set resolves to false when its environment variable is
\* "0" or any casing of "false" and to true when it is any other non-empty string;
\* a flag the user sets resolves to the user's value.
C9_EnvFlags == phase = "setup" => \A flag \in Flags : FlagFollowsEnv(flag)

ExpectedServerInstances ==
    { Inst(k, IF Keys(ServerToggles.v[k]) # {} THEN ServerToggles.v[k] ELSE U) :
        k \in { j \in Keys(ServerToggles) : j \in ServerAllowList /\ Truthy(ServerToggles.v[j]) } }
\* What C10 says of a server configuration, read at the given key.
CarriesInstancesAt(config, key) ==
    /\ IsArray(Get(config, key))
    /\ Range(Get(config, key).v) = ExpectedServerInstances
    /\ Len(Get(config, key).v) = Cardinality(ExpectedServerInstances)

\* C10: the configuration resolveServerOptions returns, and the one
\* initializeServerSentry passes to Sentry.init, carries under its integrations key
\* exactly one instance per recognised, non-disabled server toggle, constructed with
\* the toggle's options when they are non-empty and with no argument otherwise.
C10_IntegrationsReachClient ==
    /\ buildDone => CarriesInstancesAt(Get(ServerResolved, "config"), "integrations")
    /\ sentryConfig # U => CarriesInstancesAt(sentryConfig, "integrations")

UserTracing == Get(options, "tracing")
UserSampleRate == Get(Get(options, "config"), "tracesSampleRate")
\* The resolved tracing sample rate: the user's tracing.tracesSampleRate, 1.0 otherwise.
TracingSampleRate ==
    IF Has(UserTracing, "tracesSampleRate") THEN UserTracing.v.tracesSampleRate ELSE N(10)
\* What C11 says of the configuration in one side's payload.
SampleRateResolved(config) ==
    IF Truthy(UserTracing)
    THEN IF UserSampleRate.t = "undef"
         THEN Get(config, "tracesSampleRate") = TracingSampleRate
         ELSE Get(config, "tracesSampleRate") = UserSampleRate
    ELSE Has(config, "tracesSampleRate") <=> UserSampleRate.t # "undef"

\* C11: with tracing on (true or an object), the configuration in the client
\* payload and the one in the server payload have tracesSampleRate equal to the
\* resolved tracing sample rate (1.0, or the user's tracing.tracesSampleRate)
\* when the user left config.tracesSampleRate unset, and keep the user's value,
\* 0 included, when the user set it; with tracing off the field is never added.
C11_SampleRate ==
    buildDone =>
      /\ SampleRateResolved(Get(ClientResolved, "config"))
      /\ SampleRateResolved(Get(ServerResolved, "config"))

====
